---- MODULE Spec2Model ----
(***************************************************************************)
(* Model of the task tracker of cogs/task.py and of the server settings of *)
(* cogs/admin.py: the in-memory documents self.tasks and self.config_data, *)
(* the files they are persisted in, and the slash-command handlers.        *)
(*                                                                         *)
(*   Spec       the task commands, one handler one action                  *)
(*   SpecAsync  the task commands with handlers suspended at their awaits  *)
(*   SpecAdmin  the config commands                                        *)
(*   SpecFiles  load_json, save_json and the construction of the task cog  *)
(*              over the possible contents of the file                     *)
(***************************************************************************)
EXTENDS Integers, Sequences, FiniteSets, TLC

VARIABLES tasks, file, now, call, reply, io, ever, edits, faults,
          pending, config_data, config_file

vars == <<tasks, file, now, call, reply, io, ever, edits, faults,
          pending, config_data, config_file>>

\* The state of the task cog and the state of the admin cog.
taskvars == <<tasks, file, now, ever, edits>>
adminvars == <<config_data, config_file>>

(***************************************************************************)
(* Bounds of the model.                                                    *)
(***************************************************************************)
\* tasks created, clock readings taken, edits applied and failing saves
\* in one run
MaxTasks == 2
MaxClock == 3
MaxEdits == 1
MaxFaults == 1
\* handlers suspended at the same time
MaxPending == 2

(***************************************************************************)
(* Python values.  None stands for Python's None in a string-valued slot,  *)
(* NoneId for None in an integer-valued slot (user ids are never 0).       *)
(***************************************************************************)
None == "None"
NoneId == 0

\* uuid.uuid4() is random: str(uuid4())[:8] is any 8-hex-digit string.
TaskIds == {"0a1b2c3d", "4e5f6a7b"}
FirstId == "0a1b2c3d"
Users == {1}

Args(title, description, due_date, assignee) ==
    [title |-> title, description |-> description, due_date |-> due_date,
     assignee |-> assignee]

\* Argument lists of /task_add: title, description, due_date, assignee.
AddRequests ==
    { Args("Write report", None,      None,         NoneId),
      Args("Write report", "details", "2024-01-15", 7),
      Args("Write report", None,      "2024-13-40", NoneId),
      Args("Write report", None,      "",           NoneId) }

\* Argument lists of /task_edit; None and NoneId are omitted options.
EditRequests ==
    { Args(None,      None,      "none",       NoneId),
      Args(None,      "details", "2024-01-15", 7),
      Args("Fix bug", None,      "2023-02-29", NoneId) }

\* Outcomes of one save_json call, chosen by the environment.
SaveOutcomes == {"ok", "mkdir_fail", "open_fail", "dump_fail"}

\* The characters of a Python string of DueDateStrings.
Chars(s) ==
    CASE s = "2024-01-15" -> <<"2","0","2","4","-","0","1","-","1","5">>
      [] s = "2024-13-40" -> <<"2","0","2","4","-","1","3","-","4","0">>
      [] s = "2023-02-29" -> <<"2","0","2","3","-","0","2","-","2","9">>
      [] s = "none"       -> <<"n","o","n","e">>
      [] s = ""           -> <<>>

DigitChars == {"0","1","2","3","4","5","6","7","8","9"}

DigitVal(c) ==
    CASE c = "0" -> 0 [] c = "1" -> 1 [] c = "2" -> 2 [] c = "3" -> 3
      [] c = "4" -> 4 [] c = "5" -> 5 [] c = "6" -> 6 [] c = "7" -> 7
      [] c = "8" -> 8 [] c = "9" -> 9

RECURSIVE NumVal(_)
NumVal(cs) ==
    IF cs = <<>> THEN 0
    ELSE 10 * NumVal(SubSeq(cs, 1, Len(cs) - 1)) + DigitVal(cs[Len(cs)])

AllDigits(cs) == \A k \in 1..Len(cs) : cs[k] \in DigitChars

IsLeap(y) == (y % 4 = 0) /\ ((y % 100 # 0) \/ (y % 400 = 0))

DaysInMonth(y, m) ==
    IF m = 2 THEN (IF IsLeap(y) THEN 29 ELSE 28)
    ELSE IF m \in {4, 6, 9, 11} THEN 30 ELSE 31

\* One or two digits without a value of zero: the directives %m and %d.
FieldOK(cs, max) ==
    /\ Len(cs) \in {1, 2}
    /\ AllDigits(cs)
    /\ NumVal(cs) \in 1..max

\* datetime.datetime.strptime(s, '%Y-%m-%d') returns (TRUE) or raises
\* ValueError (FALSE): four digits, '-', month, '-', day, nothing after,
\* and the three numbers form a date of the calendar.
strptime(s) ==
    LET cs == Chars(s)
        n  == Len(cs)
    IN  /\ n >= 8
        /\ AllDigits(SubSeq(cs, 1, 4))
        /\ cs[5] = "-"
        /\ \E j \in 7..(n - 1) :
              /\ cs[j] = "-"
              /\ FieldOK(SubSeq(cs, 6, j - 1), 12)
              /\ FieldOK(SubSeq(cs, j + 1, n), 31)
              /\ NumVal(SubSeq(cs, 1, 4)) >= 1
              /\ NumVal(SubSeq(cs, j + 1, n))
                    <= DaysInMonth(NumVal(SubSeq(cs, 1, 4)),
                                   NumVal(SubSeq(cs, 6, j - 1)))

\* strptime on each string the requests pass, computed once.
DueDateStrings == {"2024-01-15", "2024-13-40", "2023-02-29", "none", ""}
strptime_ok == [s \in DueDateStrings |-> strptime(s)]

\* Truthiness of a Python Optional[str]: None and "" are falsy.
Truthy(s) == s # None /\ s # ""

(***************************************************************************)
(* Persistence.  A file is absent, cannot be read, holds text that is not  *)
(* JSON, or holds a JSON text.  A JSON text is modelled by its syntax      *)
(* tree: a node has a kind (object, array, string, number, null) and a     *)
(* value.                                                                  *)
(***************************************************************************)
\* {} and {'tasks': []}
EmptyMap == [k \in {} |-> <<>>]
EmptyDoc == [tasks |-> <<>>]

\* The keys of a task dict that hold integers and those that hold the text
\* of a clock reading (datetime.now().isoformat()); the others hold strings.
IntKeys == {"assignee_id", "creator_id"}
TimeKeys == {"created_at", "completed_at", "deleted_at"}

JNull == [kind |-> "null", val |-> <<>>]
NoText == [kind |-> "none", val |-> <<>>]

\* json.dump of one value of a task dict: None -> null, int -> number,
\* str -> string.
json_scalar(key, v) ==
    IF key \in IntKeys
    THEN IF v = NoneId THEN JNull ELSE [kind |-> "number", val |-> v]
    ELSE IF key \in TimeKeys THEN [kind |-> "string", val |-> v]
    ELSE IF v = None THEN JNull ELSE [kind |-> "string", val |-> v]

\* json.dump of a task dict (an object with the dict's keys) and of a list.
json_task(t) ==
    [kind |-> "object", val |-> [k \in DOMAIN t |-> json_scalar(k, t[k])]]

json_list(list) ==
    [kind |-> "array", val |-> [i \in 1..Len(list) |-> json_task(list[i])]]

\* json.dump(data, f, ...): the text written for the dict data.
json_dump(data) ==
    [kind |-> "object", val |-> [k \in DOMAIN data |-> json_list(data[k])]]

\* json.load of one member of a task object.
py_scalar(key, j) ==
    IF j.kind = "null"
    THEN IF key \in IntKeys THEN NoneId ELSE None
    ELSE j.val

py_task(j) == [k \in DOMAIN j.val |-> py_scalar(k, j.val[k])]

py_list(j) == [i \in 1..Len(j.val) |-> py_task(j.val[i])]

\* A Python value with its type: json.load returns a dict for an object
\* and a list for an array.
PyDict(v) == [type |-> "dict", val |-> v]
PyList(v) == [type |-> "list", val |-> v]

\* json.load(f) of a JSON text.
json_load(j) ==
    IF j.kind = "object"
    THEN PyDict([k \in DOMAIN j.val |-> py_list(j.val[k])])
    ELSE PyList(py_list(j))

FileAbsent == [kind |-> "absent", data |-> NoText]
FileUnreadable == [kind |-> "unreadable", data |-> NoText]
FileInvalid == [kind |-> "invalid", data |-> NoText]
FileJson(text) == [kind |-> "json", data |-> text]

\* load_json: {} when the file does not exist, when open() or read raise
\* (except Exception) and when the text is not JSON (JSONDecodeError);
\* otherwise whatever json.load returns.
load_json(f) ==
    IF f.kind = "json" THEN json_load(f.data) ELSE PyDict(EmptyMap)

\* TaskCog.__init__: self.tasks = load_json(TASKS_FILE), then
\* self.tasks.setdefault('tasks', []).  A list has no setdefault: the call
\* raises AttributeError and the cog is not constructed.
cog_init(f) ==
    LET m == load_json(f) IN
    IF m.type # "dict"
    THEN [raised |-> TRUE, tasks |-> EmptyDoc]
    ELSE [raised |-> FALSE,
          tasks  |-> IF "tasks" \in DOMAIN m.val THEN m.val
                     ELSE [k \in {"tasks"} |-> <<>>]]

\* save_json(TASKS_FILE, data) under outcome w.  os.makedirs is outside the
\* try block, so its failure is raised; a failure of open() or json.dump()
\* is caught and printed.  open(..., 'w') truncates, so a dump that fails
\* part-way leaves text that is not JSON.
save_json(f, data, w) ==
    CASE w = "ok"         -> [file |-> FileJson(json_dump(data)),
                              raised |-> FALSE]
      [] w = "mkdir_fail" -> [file |-> f,              raised |-> TRUE]
      [] w = "open_fail"  -> [file |-> f,              raised |-> FALSE]
      [] w = "dump_fail"  -> [file |-> FileInvalid,    raised |-> FALSE]

(***************************************************************************)
(* Lookup: for task in self.tasks['tasks']: if task['id'] == task_id: ...  *)
(* break.  The index of the first match, 0 when there is none.             *)
(***************************************************************************)
RECURSIVE ScanFrom(_, _, _)
ScanFrom(list, task_id, k) ==
    IF k > Len(list) THEN 0
    ELSE IF list[k].id = task_id THEN k
    ELSE ScanFrom(list, task_id, k + 1)

\* Variant of find_task whose loop has no break: the last match is kept.
find_task_noBreak(list, task_id) ==
    LET matches == {k \in 1..Len(list) : list[k].id = task_id}
    IN  IF matches = {} THEN 0
        ELSE CHOOSE k \in matches : \A j \in matches : j <= k

find_task(list, task_id) == ScanFrom(list, task_id, 1)

\* Variant of active_tasks that filters out deleted tasks only.
active_tasks_notDeleted(list) ==
    SelectSeq(list, LAMBDA t : t.status # "deleted")

\* [task for task in self.tasks['tasks'] if task['status'] == 'active']
RECURSIVE active_tasks(_)
active_tasks(list) ==
    IF list = <<>> THEN <<>>
    ELSE IF Head(list).status = "active"
         THEN <<Head(list)>> \o active_tasks(Tail(list))
         ELSE active_tasks(Tail(list))

\* found_task[key] = value: the dict gains the key when it lacks it.
SetKey(t, key, value) ==
    IF key \in DOMAIN t THEN [t EXCEPT ![key] = value]
    ELSE [k \in (DOMAIN t) \cup {key} |-> IF k = key THEN value ELSE t[k]]

NoArgs == Args(None, None, None, NoneId)

\* The ids uuid4 can produce that matter: an id of the list (a collision)
\* or an id not in the list.  Ids not in the list are interchangeable, so
\* one of them stands for all.
UsedIds(list) == {list[i].id : i \in 1..Len(list)}
NewIds(list) ==
    LET unused == TaskIds \ UsedIds(list)
    IN  UsedIds(list) \cup
        (IF unused = {} THEN {}
         ELSE IF FirstId \in unused THEN {FirstId}
         ELSE {CHOOSE x \in unused : TRUE})

Call(cmd, task_id, args) == [cmd |-> cmd, task_id |-> task_id, args |-> args]

Reply(kind, body) == [kind |-> kind, body |-> body]

(***************************************************************************)
(* The admin cog's store.  self.config_data maps str(guild_id) to a dict   *)
(* with the optional keys welcome_channel_id and logging_channel_id.       *)
(* load_config_data and save_config_data live in utils/helpers.py; they    *)
(* follow the specification of the config repository: loaded once at       *)
(* startup, persist() serializes the full map and raises when the write    *)
(* fails.                                                                  *)
(***************************************************************************)
Guilds == {1, 2}
NoGuild == 0
Channels == {10, 20}
ConfigOutcomes == {"ok", "write_fail"}

\* str(guild_id)
GuildKey(guild_id) == ToString(guild_id)

\* The JSON text of the config map and the map read back from it.
config_dump(data) ==
    [kind |-> "object",
     val |-> [g \in DOMAIN data |->
                [kind |-> "object",
                 val |-> [k \in DOMAIN data[g] |->
                            [kind |-> "number", val |-> data[g][k]]]]]]

config_parse(j) ==
    [g \in DOMAIN j.val |-> [k \in DOMAIN j.val[g].val |-> j.val[g].val[k].val]]

load_config_data(f) ==
    IF f.kind = "json" THEN config_parse(f.data) ELSE EmptyMap

save_config_data(f, data, w) ==
    IF w = "ok"
    THEN [file |-> FileJson(config_dump(data)), raised |-> FALSE]
    ELSE [file |-> f, raised |-> TRUE]

Init ==
    /\ file = FileAbsent
    /\ tasks = cog_init(file).tasks
    /\ now = 1
    /\ call = Call("none", None, NoArgs)
    /\ reply = Reply("none", <<>>)
    /\ io = "none"
    /\ ever = <<>>
    /\ edits = 0
    /\ faults = 0
    /\ pending = {}
    /\ config_file = FileAbsent
    /\ config_data = load_config_data(config_file)

(***************************************************************************)
(* The record changes the handlers make.                                   *)
(***************************************************************************)
\* Variant of add_due_date that keeps the due date without validating it.
add_due_date_unchecked(due_date) ==
    IF Truthy(due_date)
    THEN [ok |-> TRUE, value |-> due_date]
    ELSE [ok |-> TRUE, value |-> None]

\* task_add: the due date kept for the new task; ok = FALSE is the
\* ValueError branch.  "if due_date:" skips None and the empty string.
add_due_date(due_date) ==
    IF Truthy(due_date)
    THEN IF strptime_ok[due_date]
         THEN [ok |-> TRUE,  value |-> due_date]
         ELSE [ok |-> FALSE, value |-> None]
    ELSE [ok |-> TRUE, value |-> None]

\* task_add: the new_task dict.
new_task(task_id, title, description, parsed_due_date, assignee, user, ts) ==
    [id          |-> task_id,
     title       |-> title,
     description |-> IF Truthy(description) THEN description ELSE "",
     due_date    |-> parsed_due_date,
     assignee_id |-> assignee,
     creator_id  |-> user,
     created_at  |-> ts,
     status      |-> "active"]

\* self.tasks['tasks'].append(new_task)
append_task(doc, t) == [doc EXCEPT !.tasks = Append(@, t)]

\* Variant of done_check without the guard for a deleted task.
done_check_noDeletedGuard(t) ==
    IF t.status = "done" THEN "already_done" ELSE "ok"

\* Variant of done_check without the guard for a completed task.
done_check_noDoneGuard(t) ==
    IF t.status = "deleted" THEN "already_deleted" ELSE "ok"

\* task_done: the two guards on the found task's status.
done_check(t) ==
    IF t.status = "done" THEN "already_done"
    ELSE IF t.status = "deleted" THEN "already_deleted"
    ELSE "ok"

\* Variant of delete_check that deletes active tasks only.
delete_check_activeOnly(t) ==
    IF t.status # "active" THEN "already_deleted" ELSE "ok"

\* Variant of delete_check without the guard.
delete_check_none(t) == "ok"

\* task_delete: the guard on the found task's status.
delete_check(t) ==
    IF t.status = "deleted" THEN "already_deleted" ELSE "ok"

\* Variant of done_task that records no completion time.
done_task_noStamp(t, ts) == SetKey(t, "status", "done")

\* task_done: status and completion time of the found task.
done_task(t, ts) == SetKey(SetKey(t, "status", "done"), "completed_at", ts)

\* task_delete: status and deletion time of the found task.
deleted_task(t, ts) == SetKey(SetKey(t, "status", "deleted"), "deleted_at", ts)

\* Variant of delete_in_place that takes the record out of the list.
delete_in_place_remove(doc, i, ts) ==
    [doc EXCEPT !.tasks = SubSeq(@, 1, i - 1) \o SubSeq(@, i + 1, Len(@))]

\* task_delete: found_task is the dict held by the list, so the two
\* assignments change the record where it stands.
delete_in_place(doc, i, ts) ==
    [doc EXCEPT !.tasks[i] = deleted_task(@, ts)]

\* Variant of edit_fields that stores the assignee under creator_id.
edit_fields_asCreator(t, title, description, assignee) ==
    LET t1 == IF title # None THEN SetKey(t, "title", title) ELSE t
        t2 == IF description # None
              THEN SetKey(t1, "description", description) ELSE t1
    IN  IF assignee # NoneId THEN SetKey(t2, "creator_id", assignee) ELSE t2

\* Variant of edit_fields that empties the description when it is omitted.
edit_fields_clearsOmitted(t, title, description, assignee) ==
    LET t1 == IF title # None THEN SetKey(t, "title", title) ELSE t
        t2 == SetKey(t1, "description",
                     IF description # None THEN description ELSE "")
    IN  IF assignee # NoneId THEN SetKey(t2, "assignee_id", assignee) ELSE t2

\* task_edit: the three assignments made before the due date is parsed.
edit_fields(t, title, description, assignee) ==
    LET t1 == IF title # None THEN SetKey(t, "title", title) ELSE t
        t2 == IF description # None
              THEN SetKey(t1, "description", description) ELSE t1
    IN  IF assignee # NoneId THEN SetKey(t2, "assignee_id", assignee) ELSE t2

\* Variant of edit_due_date that does not know the clearing sentinel.
edit_due_date_noSentinel(t, due_date) ==
    IF due_date # None
    THEN IF strptime_ok[due_date]
         THEN [ok |-> TRUE,  value |-> due_date]
         ELSE [ok |-> FALSE, value |-> t.due_date]
    ELSE [ok |-> TRUE, value |-> t.due_date]

\* task_edit: parsed_due_date; ok = FALSE is the ValueError branch.
edit_due_date(t, due_date) ==
    IF due_date # None
    THEN IF due_date = "none"
         THEN [ok |-> TRUE, value |-> None]
         ELSE IF strptime(due_date)
              THEN [ok |-> TRUE,  value |-> due_date]
              ELSE [ok |-> FALSE, value |-> t.due_date]
    ELSE [ok |-> TRUE, value |-> t.due_date]

\* The statuses each list position has held so far (history of the run).
Observe(doc) ==
    [i \in 1..Len(doc.tasks) |->
        (IF i <= Len(ever) THEN ever[i] ELSE {}) \cup {doc.tasks[i].status}]

\* save_json inside the handler's try/except, under an outcome the
\* environment chooses (within the run's budget of failing saves); the
\* reply is the except branch's when save_json raised, else success.
Save(doc, success) ==
    \E w \in SaveOutcomes :
        LET saved == save_json(file, doc, w) IN
        /\ w = "ok" \/ faults < MaxFaults
        /\ faults' = IF w = "ok" THEN faults ELSE faults + 1
        /\ file' = saved.file
        /\ io' = w
        /\ reply' = IF saved.raised THEN Reply("save_error", <<>>)
                    ELSE Reply(success, <<>>)

\* A command that returns before it reaches save_json.
NoSave ==
    /\ io' = "none"
    /\ UNCHANGED <<file, faults>>

(***************************************************************************)
(* The command handlers.                                                   *)
(***************************************************************************)
task_add(a, user, task_id) ==
    LET due == add_due_date(a.due_date) IN
    /\ call' = Call("task_add", None, a)
    /\ IF ~due.ok
       THEN /\ reply' = Reply("invalid_date", <<>>)
            /\ NoSave
            /\ UNCHANGED <<tasks, now, ever, edits>>
       ELSE LET t   == new_task(task_id, a.title, a.description, due.value,
                                a.assignee, user, now)
                doc == append_task(tasks, t)
            IN  /\ Len(tasks.tasks) < MaxTasks
                /\ now <= MaxClock
                /\ tasks' = doc
                /\ now' = now + 1
                /\ Save(doc, "created")
                /\ ever' = Observe(doc)
                /\ UNCHANGED edits

task_list ==
    LET active == active_tasks(tasks.tasks) IN
    /\ call' = Call("task_list", None, NoArgs)
    /\ reply' = IF active = <<>> THEN Reply("no_active", <<>>)
                ELSE Reply("listed", active)
    /\ NoSave
    /\ UNCHANGED <<tasks, now, ever, edits>>

\* Variant of task_done that takes the change back when the save failed.
task_done_rollback(task_id) ==
    LET i == find_task(tasks.tasks, task_id) IN
    /\ call' = Call("task_done", task_id, NoArgs)
    /\ IF i = 0
       THEN /\ reply' = Reply("not_found", <<>>)
            /\ NoSave
            /\ UNCHANGED <<tasks, now, ever, edits>>
       ELSE IF done_check(tasks.tasks[i]) # "ok"
       THEN /\ reply' = Reply(done_check(tasks.tasks[i]), <<>>)
            /\ NoSave
            /\ UNCHANGED <<tasks, now, ever, edits>>
       ELSE LET doc == [tasks EXCEPT !.tasks[i] = done_task(@, now)]
            IN  /\ now <= MaxClock
                /\ now' = now + 1
                /\ Save(doc, "done")
                /\ tasks' = IF io' = "ok" THEN doc ELSE tasks
                /\ ever' = Observe(tasks')
                /\ UNCHANGED edits

task_done(task_id) ==
    LET i == find_task(tasks.tasks, task_id) IN
    /\ call' = Call("task_done", task_id, NoArgs)
    /\ IF i = 0
       THEN /\ reply' = Reply("not_found", <<>>)
            /\ NoSave
            /\ UNCHANGED <<tasks, now, ever, edits>>
       ELSE IF done_check(tasks.tasks[i]) # "ok"
       THEN /\ reply' = Reply(done_check(tasks.tasks[i]), <<>>)
            /\ NoSave
            /\ UNCHANGED <<tasks, now, ever, edits>>
       ELSE LET doc == [tasks EXCEPT !.tasks[i] = done_task(@, now)]
            IN  /\ now <= MaxClock
                /\ tasks' = doc
                /\ now' = now + 1
                /\ Save(doc, "done")
                /\ ever' = Observe(doc)
                /\ UNCHANGED edits

task_delete(task_id) ==
    LET i == find_task(tasks.tasks, task_id) IN
    /\ call' = Call("task_delete", task_id, NoArgs)
    /\ IF i = 0
       THEN /\ reply' = Reply("not_found", <<>>)
            /\ NoSave
            /\ UNCHANGED <<tasks, now, ever, edits>>
       ELSE IF delete_check(tasks.tasks[i]) # "ok"
       THEN /\ reply' = Reply(delete_check(tasks.tasks[i]), <<>>)
            /\ NoSave
            /\ UNCHANGED <<tasks, now, ever, edits>>
       ELSE LET doc == delete_in_place(tasks, i, now)
            IN  /\ now <= MaxClock
                /\ tasks' = doc
                /\ now' = now + 1
                /\ Save(doc, "deleted")
                /\ ever' = Observe(doc)
                /\ UNCHANGED edits

task_edit(task_id, a) ==
    LET i == find_task(tasks.tasks, task_id) IN
    /\ call' = Call("task_edit", task_id, a)
    /\ IF i = 0
       THEN /\ reply' = Reply("not_found", <<>>)
            /\ NoSave
            /\ UNCHANGED <<tasks, now, ever, edits>>
       ELSE LET t1  == edit_fields(tasks.tasks[i], a.title, a.description,
                                   a.assignee)
                due == edit_due_date(t1, a.due_date)
            IN  /\ edits < MaxEdits
                /\ edits' = edits + 1
                /\ UNCHANGED now
                /\ IF ~due.ok
                   THEN \* the fields already assigned stay assigned, unsaved
                        /\ tasks' = [tasks EXCEPT !.tasks[i] = t1]
                        /\ reply' = Reply("invalid_date", <<>>)
                        /\ NoSave
                        /\ ever' = Observe(tasks')
                   ELSE LET doc == [tasks EXCEPT !.tasks[i] =
                                       SetKey(t1, "due_date", due.value)]
                        IN  /\ tasks' = doc
                            /\ Save(doc, "edited")
                            /\ ever' = Observe(doc)

task_detail(task_id) ==
    LET i == find_task(tasks.tasks, task_id) IN
    /\ call' = Call("task_detail", task_id, NoArgs)
    /\ reply' = IF i = 0 THEN Reply("not_found", <<>>)
                ELSE Reply("detail", <<tasks.tasks[i]>>)
    /\ NoSave
    /\ UNCHANGED <<tasks, now, ever, edits>>

\* The task commands, handled one after the other; the admin cog is idle.
Next ==
    \/ \E a \in AddRequests, user \in Users, task_id \in NewIds(tasks.tasks) :
          task_add(a, user, task_id) /\ UNCHANGED <<pending, adminvars>>
    \/ task_list /\ UNCHANGED <<pending, adminvars>>
    \/ \E task_id \in TaskIds :
          task_done(task_id) /\ UNCHANGED <<pending, adminvars>>
    \/ \E task_id \in TaskIds :
          task_delete(task_id) /\ UNCHANGED <<pending, adminvars>>
    \/ \E task_id \in TaskIds, a \in EditRequests :
          task_edit(task_id, a) /\ UNCHANGED <<pending, adminvars>>
    \/ \E task_id \in TaskIds :
          task_detail(task_id) /\ UNCHANGED <<pending, adminvars>>

Spec == Init /\ [][Next]_vars

(***************************************************************************)
(* The admin cog's commands.                                               *)
(***************************************************************************)
AdminCall(cmd, guild_id, channel) ==
    [cmd |-> cmd, guild |-> guild_id, channel |-> channel]

\* _get_guild_config: the config map after the call; an empty dict is
\* inserted for a guild that has none.  The dict returned is the entry.
get_guild_config(data, guild_id) ==
    IF GuildKey(guild_id) \in DOMAIN data THEN data
    ELSE SetKey(data, GuildKey(guild_id), EmptyMap)

\* A command used outside a server.
server_only(cmd) ==
    /\ call' = AdminCall(cmd, NoGuild, 0)
    /\ reply' = Reply("server_only", <<>>)
    /\ io' = "none"
    /\ UNCHANGED <<adminvars, faults>>

\* Variant of config_show that saves the map after reading the entry.
config_show_saving(guild_id) ==
    IF guild_id = NoGuild THEN server_only("config_show")
    ELSE LET data == get_guild_config(config_data, guild_id) IN
         /\ call' = AdminCall("config_show", guild_id, 0)
         /\ config_data' = data
         /\ reply' = Reply("config", <<data[GuildKey(guild_id)]>>)
         /\ io' = "ok"
         /\ config_file' = save_config_data(config_file, data, "ok").file
         /\ UNCHANGED faults

config_show(guild_id) ==
    IF guild_id = NoGuild THEN server_only("config_show")
    ELSE LET data == get_guild_config(config_data, guild_id) IN
         /\ call' = AdminCall("config_show", guild_id, 0)
         /\ config_data' = data
         /\ reply' = Reply("config", <<data[GuildKey(guild_id)]>>)
         /\ io' = "none"
         /\ UNCHANGED <<config_file, faults>>

\* Variant of config_set that replaces the guild's dict by one holding only
\* the key that is set.
config_set_replaceEntry(cmd, key, guild_id, channel) ==
    IF guild_id = NoGuild THEN server_only(cmd)
    ELSE LET got  == get_guild_config(config_data, guild_id)
             data == [got EXCEPT ![GuildKey(guild_id)] =
                         SetKey(EmptyMap, key, channel)]
         IN  \E w \in ConfigOutcomes :
               LET saved == save_config_data(config_file, data, w) IN
               /\ w = "ok" \/ faults < MaxFaults
               /\ faults' = IF w = "ok" THEN faults ELSE faults + 1
               /\ call' = AdminCall(cmd, guild_id, channel)
               /\ config_data' = data
               /\ config_file' = saved.file
               /\ io' = w
               /\ reply' = IF saved.raised THEN Reply("config_error", <<>>)
                           ELSE Reply("config_set", <<>>)

\* config_set_welcome_channel and config_set_logging_channel: the key is
\* assigned, then the whole map is saved; an exception of the save is
\* caught and answered with the error embed.
config_set(cmd, key, guild_id, channel) ==
    IF guild_id = NoGuild THEN server_only(cmd)
    ELSE LET got  == get_guild_config(config_data, guild_id)
             data == [got EXCEPT ![GuildKey(guild_id)] = SetKey(@, key, channel)]
         IN  \E w \in ConfigOutcomes :
               LET saved == save_config_data(config_file, data, w) IN
               /\ w = "ok" \/ faults < MaxFaults
               /\ faults' = IF w = "ok" THEN faults ELSE faults + 1
               /\ call' = AdminCall(cmd, guild_id, channel)
               /\ config_data' = data
               /\ config_file' = saved.file
               /\ io' = w
               /\ reply' = IF saved.raised THEN Reply("config_error", <<>>)
                           ELSE Reply("config_set", <<>>)

config_set_welcome_channel(guild_id, channel) ==
    config_set("config_set_welcome_channel", "welcome_channel_id",
               guild_id, channel)

config_set_logging_channel(guild_id, channel) ==
    config_set("config_set_logging_channel", "logging_channel_id",
               guild_id, channel)

\* The admin commands, handled one after the other; the task cog is idle.
NextAdmin ==
    \/ \E guild_id \in Guilds \cup {NoGuild} :
          config_show(guild_id) /\ UNCHANGED <<taskvars, pending>>
    \/ \E guild_id \in Guilds \cup {NoGuild}, channel \in Channels :
          config_set_welcome_channel(guild_id, channel)
             /\ UNCHANGED <<taskvars, pending>>
    \/ \E guild_id \in Guilds \cup {NoGuild}, channel \in Channels :
          config_set_logging_channel(guild_id, channel)
             /\ UNCHANGED <<taskvars, pending>>

SpecAdmin == Init /\ [][NextAdmin]_vars

(***************************************************************************)
(* Handlers in flight.  discord.py starts a handler for every interaction  *)
(* and the event loop switches between handlers at their awaits.  A body   *)
(* is the sequence of its statements that matter here: an await, a read of *)
(* self.tasks, a write to a record or to the list, and the save_json call. *)
(***************************************************************************)
\* Variant of Body in which task_edit awaits between its writes and its save.
Body_awaitBeforeSave(cmd) ==
    CASE cmd = "task_add"    -> <<"await", "write", "save", "await">>
      [] cmd = "task_list"   -> <<"await", "read", "await", "await">>
      [] cmd = "task_done"   -> <<"await", "read", "write", "save", "await">>
      [] cmd = "task_delete" -> <<"await", "read", "write", "save", "await">>
      [] cmd = "task_edit"   -> <<"await", "read", "write", "write", "await",
                                  "save", "await", "await">>
      [] cmd = "task_detail" -> <<"await", "read", "await", "await", "await">>

\* The statements of each handler on the path that does not return early:
\* defer(), the lookup, the assignments, save_json, then fetch_user and
\* followup.send.  An early return awaits followup.send and stops.
Body(cmd) ==
    CASE cmd = "task_add"    -> <<"await", "write", "save", "await">>
      [] cmd = "task_list"   -> <<"await", "read", "await", "await">>
      [] cmd = "task_done"   -> <<"await", "read", "write", "save", "await">>
      [] cmd = "task_delete" -> <<"await", "read", "write", "save", "await">>
      [] cmd = "task_edit"   -> <<"await", "read", "write", "write", "save",
                                  "await", "await">>
      [] cmd = "task_detail" -> <<"await", "read", "await", "await", "await">>

\* The handler runs from statement pc until it suspends: the index of the
\* next await, or of the last statement.
RECURSIVE NextAwait(_, _)
NextAwait(body, pc) ==
    IF pc >= Len(body) \/ body[pc] = "await" THEN pc
    ELSE NextAwait(body, pc + 1)

\* A handler suspended at statement pc - 1 of its body.
Invocation(cmd, task_id, args) ==
    [cmd |-> cmd, task_id |-> task_id, args |-> args, pc |-> 2,
     wrote |-> FALSE]

\* The interactions that arrive.
AsyncRequests ==
    {Invocation("task_add", None, Args("Write report", None, None, NoneId)),
     Invocation("task_list", None, NoArgs),
     Invocation("task_done", FirstId, NoArgs),
     Invocation("task_delete", FirstId, NoArgs),
     Invocation("task_edit", FirstId, Args("Fix bug", None, "2023-02-29", NoneId)),
     Invocation("task_edit", FirstId, Args(None, "details", "2024-01-15", 7)),
     Invocation("task_detail", FirstId, NoArgs)}

\* An interaction arrives: its handler starts and suspends at
\* await interaction.response.defer().
dispatch(inv) ==
    /\ Cardinality(pending) < MaxPending
    /\ inv \notin pending
    /\ pending' = pending \cup {inv}
    /\ UNCHANGED <<taskvars, adminvars, call, reply, io, faults>>

\* The event loop resumes a suspended handler, which runs to its next
\* await.  When that stretch holds the handler's writes and its save_json
\* call, it is the handler's whole action; when it holds a write but the
\* save comes after a further await, the handler suspends having written.
resume(inv) ==
    LET body == Body(inv.cmd)
        stop == NextAwait(body, inv.pc)
        run  == {body[k] : k \in inv.pc..stop}
        rest == {body[k] : k \in (stop + 1)..Len(body)}
    IN  IF "write" \in run /\ "save" \notin run /\ "save" \in rest
        THEN /\ pending' = (pending \ {inv}) \cup
                              {[inv EXCEPT !.pc = stop + 1, !.wrote = TRUE]}
             /\ UNCHANGED <<taskvars, adminvars, call, reply, io, faults>>
        ELSE /\ pending' = pending \ {inv}
             /\ UNCHANGED adminvars
             /\ \/ /\ inv.cmd = "task_add"
                   /\ \E user \in Users, task_id \in NewIds(tasks.tasks) :
                         task_add(inv.args, user, task_id)
                \/ inv.cmd = "task_list" /\ task_list
                \/ inv.cmd = "task_done" /\ task_done(inv.task_id)
                \/ inv.cmd = "task_delete" /\ task_delete(inv.task_id)
                \/ inv.cmd = "task_edit" /\ task_edit(inv.task_id, inv.args)
                \/ inv.cmd = "task_detail" /\ task_detail(inv.task_id)

NextAsync ==
    \/ \E inv \in AsyncRequests : dispatch(inv)
    \/ \E inv \in pending : resume(inv)

SpecAsync == Init /\ [][NextAsync]_vars

(***************************************************************************)
(* load_json, save_json and TaskCog.__init__ on their own: the file holds  *)
(* any of the contents below when the cog is constructed or a load / save  *)
(* / load round trip is made.                                              *)
(***************************************************************************)
\* Records as the handlers write them: active, with every optional field,
\* done, deleted, and deleted after done.
SampleTasks ==
    LET plain == new_task(FirstId, "Write report", None, None, NoneId, 1, 1)
        full  == new_task("4e5f6a7b", "Write report", "details",
                          "2024-01-15", 7, 1, 2)
    IN  {plain, full, done_task(plain, 2), deleted_task(full, 3),
         deleted_task(done_task(plain, 2), 3)}

StoredLists ==
    UNION {[1..n -> SampleTasks] : n \in 0..MaxTasks}

\* No file, a file that cannot be opened, text that is not JSON, the JSON
\* texts {} and [], and the documents save_json writes.
FileStates ==
    {FileAbsent, FileUnreadable, FileInvalid,
     FileJson(json_dump(EmptyMap)), FileJson(json_list(<<>>))}
    \cup {FileJson(json_dump([tasks |-> list])) : list \in StoredLists}

InitFiles ==
    /\ file \in FileStates
    /\ tasks = EmptyDoc
    /\ now = 1
    /\ call = Call("none", None, NoArgs)
    /\ reply = Reply("none", <<>>)
    /\ io = "none"
    /\ ever = <<>>
    /\ edits = 0
    /\ faults = 0
    /\ pending = {}
    /\ config_data = EmptyMap
    /\ config_file = FileAbsent

\* setup(): TaskCog(bot) is constructed from the file as it is.
startup ==
    LET made == cog_init(file) IN
    /\ call.cmd = "none"
    /\ call' = Call("__init__", None, NoArgs)
    /\ reply' = Reply(IF made.raised THEN "raised" ELSE "started", <<>>)
    /\ tasks' = made.tasks
    /\ UNCHANGED <<file, now, io, ever, edits, faults, pending, adminvars>>

\* m = load_json(path); save_json(path, m); load_json(path), for a dict m,
\* the save having outcome w.  The reply holds m and the second load.
round_trip(w) ==
    LET m     == load_json(file)
        saved == save_json(file, m.val, w)
    IN  /\ m.type = "dict"
        /\ call' = Call("round_trip", None, NoArgs)
        /\ io' = w
        /\ file' = saved.file
        /\ reply' = IF saved.raised THEN Reply("raised", <<>>)
                    ELSE Reply("loaded", <<m, load_json(saved.file)>>)
        /\ UNCHANGED <<tasks, now, ever, edits, faults, pending, adminvars>>

NextFiles ==
    \/ startup
    \/ \E w \in SaveOutcomes : round_trip(w)

SpecFiles == InitFiles /\ [][NextFiles]_vars

(***************************************************************************)
(* Properties.                                                             *)
(***************************************************************************)
\* Position i holds the first record of list whose id is task_id.
FirstMatch(list, task_id, i) ==
    /\ i \in 1..Len(list)
    /\ list[i].id = task_id
    /\ \A j \in 1..(i - 1) : list[j].id # task_id

\* The four fields task_edit can change.
Editable(t) == <<t.title, t.description, t.assignee_id, t.due_date>>

\* C1: an edit that ends in the invalid-date error leaves title,
\* description, assignee and due date of every task as they were before
\* the call.
C1_EditAllOrNothing ==
    [][ (call'.cmd = "task_edit" /\ reply'.kind = "invalid_date")
        => /\ Len(tasks'.tasks) = Len(tasks.tasks)
           /\ \A i \in 1..Len(tasks.tasks) :
                 Editable(tasks'.tasks[i]) = Editable(tasks.tasks[i]) ]_vars

\* C2: no two records of the task list have the same id.
C2_UniqueIds ==
    \A i, j \in 1..Len(tasks.tasks) :
        i # j => tasks.tasks[i].id # tasks.tasks[j].id

\* C3: a command whose save failed ends in its error reply, never in its
\* success confirmation.
C3_SaveFailurePropagates ==
    io \in SaveOutcomes \ {"ok"} => reply.kind = "save_error"

\* C4: the status at a list position only ever stays, or goes
\* active -> done, active -> deleted or done -> deleted.
C4_StatusMonotonic ==
    [][ /\ Len(tasks'.tasks) >= Len(tasks.tasks)
        /\ \A i \in 1..Len(tasks.tasks) :
              \/ tasks'.tasks[i].status = tasks.tasks[i].status
              \/ <<tasks.tasks[i].status, tasks'.tasks[i].status>> \in
                    { <<"active", "done">>, <<"active", "deleted">>,
                      <<"done", "deleted">> } ]_vars

\* C4 witness: a task that went active -> done -> deleted.
C4_Witness ==
    \E i \in 1..Len(tasks.tasks) :
        /\ ever[i] = {"active", "done", "deleted"}
        /\ tasks.tasks[i].completed_at < tasks.tasks[i].deleted_at

\* C5: a task has completed_at iff its status has been done at some point,
\* and deleted_at iff its status has been deleted at some point.
C5_TimestampsIffEver ==
    /\ Len(ever) = Len(tasks.tasks)
    /\ \A i \in 1..Len(tasks.tasks) :
          /\ ("completed_at" \in DOMAIN tasks.tasks[i]) <=> ("done" \in ever[i])
          /\ ("deleted_at" \in DOMAIN tasks.tasks[i]) <=> ("deleted" \in ever[i])

\* C5 witness: a task that is deleted now and was done before keeps both
\* timestamps.
C5_Witness ==
    \E i \in 1..Len(tasks.tasks) :
        /\ tasks.tasks[i].status = "deleted"
        /\ "done" \in ever[i]
        /\ "completed_at" \in DOMAIN tasks.tasks[i]
        /\ "deleted_at" \in DOMAIN tasks.tasks[i]

\* C6: task_done on a task that is already done is rejected with the
\* already-done reply and changes nothing, and no step changes or removes
\* a completed_at that is set.
C6_CompleteOnce ==
    [][ /\ \A i \in 1..Len(tasks.tasks) :
              (call'.cmd = "task_done"
                 /\ FirstMatch(tasks.tasks, call'.task_id, i)
                 /\ tasks.tasks[i].status = "done")
              => (reply'.kind = "already_done" /\ tasks' = tasks
                    /\ file' = file)
        /\ \A i \in 1..Len(tasks.tasks) :
              "completed_at" \in DOMAIN tasks.tasks[i]
              => /\ i <= Len(tasks'.tasks)
                 /\ "completed_at" \in DOMAIN tasks'.tasks[i]
                 /\ tasks'.tasks[i].completed_at
                       = tasks.tasks[i].completed_at ]_vars

\* C6 witness: a second task_done on a completed task has been rejected.
C6_Witness ==
    /\ call.cmd = "task_done"
    /\ reply.kind = "already_done"
    /\ \E i \in 1..Len(tasks.tasks) :
          /\ FirstMatch(tasks.tasks, call.task_id, i)
          /\ tasks.tasks[i].status = "done"
          /\ "completed_at" \in DOMAIN tasks.tasks[i]

\* C7: task_delete on a task whose status is done is not rejected: the
\* status becomes deleted, deleted_at is set to the time of the call,
\* completed_at is kept, and the reply is the confirmation unless
\* save_json raised.
C7_DeleteAfterDone ==
    [][ \A i \in 1..Len(tasks.tasks) :
          (call'.cmd = "task_delete"
             /\ FirstMatch(tasks.tasks, call'.task_id, i)
             /\ tasks.tasks[i].status = "done")
          => /\ tasks'.tasks[i].status = "deleted"
             /\ "deleted_at" \in DOMAIN tasks'.tasks[i]
             /\ tasks'.tasks[i].deleted_at = now
             /\ "completed_at" \in DOMAIN tasks'.tasks[i]
             /\ tasks'.tasks[i].completed_at = tasks.tasks[i].completed_at
             /\ reply'.kind \in {"deleted", "save_error"}
             /\ (io' # "mkdir_fail" => reply'.kind = "deleted") ]_vars

\* C7 witness: a task_delete on a completed task has been confirmed.
C7_Witness ==
    /\ call.cmd = "task_delete"
    /\ reply.kind = "deleted"
    /\ \E i \in 1..Len(tasks.tasks) :
          /\ FirstMatch(tasks.tasks, call.task_id, i)
          /\ tasks.tasks[i].status = "deleted"
          /\ "completed_at" \in DOMAIN tasks.tasks[i]

\* Due-date arguments that are not valid YYYY-MM-DD dates.
NotADate == {"2024-13-40", "2023-02-29", "none", ""}

C9_ListActive ==
    call.cmd = "task_list" =>
        LET list == tasks.tasks
            idx  == {i \in 1..Len(list) : list[i].status = "active"}
            body == reply.body
        IN  /\ reply.kind = (IF idx = {} THEN "no_active" ELSE "listed")
            /\ Len(body) = Cardinality(idx)
            /\ \E f \in [1..Len(body) -> idx] :
                  /\ \A k, l \in 1..Len(body) : k < l => f[k] < f[l]
                  /\ \A k \in 1..Len(body) : body[k] = list[f[k]]
            /\ \A k, l \in 1..Len(body) :
                  k < l => body[k].created_at < body[l].created_at

\* C9 witness: a listing of one active task after a task that is not
\* active.
C9_Witness ==
    /\ call.cmd = "task_list"
    /\ reply.kind = "listed"
    /\ Len(tasks.tasks) = 2
    /\ tasks.tasks[1].status # "active"
    /\ reply.body = <<tasks.tasks[2]>>

\* C10: task_edit with due_date "none" on an existing task leaves the
\* task's due date unset, whatever it was and whatever the status.
C10_EditNoneClears ==
    [][ \A i \in 1..Len(tasks.tasks) :
          (call'.cmd = "task_edit" /\ call'.args.due_date = "none"
             /\ FirstMatch(tasks.tasks, call'.task_id, i))
          => /\ tasks'.tasks[i].due_date = None
             /\ reply'.kind \in {"edited", "save_error"} ]_vars

\* C10 witness: the due date of a task that is not active was cleared; the
\* file, whose write failed, still shows the date the task had.
C10_Witness ==
    /\ call.cmd = "task_edit"
    /\ call.args.due_date = "none"
    /\ io = "open_fail"
    /\ file.kind = "json"
    /\ \E i \in 1..Len(tasks.tasks) :
          /\ FirstMatch(tasks.tasks, call.task_id, i)
          /\ i <= Len(load_json(file).val.tasks)
          /\ load_json(file).val.tasks[i].due_date = "2024-01-15"
          /\ tasks.tasks[i].due_date = None
          /\ tasks.tasks[i].status # "active"

\* C11: deletion is soft and no command removes a record: no step makes the
\* list shorter, and the record at each position stays at that position
\* (the same id created at the same time).
C11_NoRecordRemoved ==
    [][ /\ Len(tasks'.tasks) >= Len(tasks.tasks)
        /\ \A i \in 1..Len(tasks.tasks) :
              <<tasks'.tasks[i].id, tasks'.tasks[i].created_at>>
                  = <<tasks.tasks[i].id, tasks.tasks[i].created_at>> ]_vars

\* task_delete has confirmed the deletion of the first of two records, and
\* the record still stands in front of the other one.
C11_Witness ==
    /\ call.cmd = "task_delete"
    /\ reply.kind = "deleted"
    /\ Len(tasks.tasks) = 2
    /\ tasks.tasks[1].id = call.task_id
    /\ tasks.tasks[1].status = "deleted"
    /\ tasks.tasks[2].status = "active"
    /\ tasks.tasks[2].created_at > tasks.tasks[1].created_at

\* C12: write-through: as long as no write of the file has failed, after
\* every command the persisted file holds the in-memory task list (a
\* restart would read back exactly self.tasks).
C12_WriteThrough ==
    (call.cmd # "none" /\ faults = 0) => cog_init(file).tasks = tasks

C14_RoundTrip ==
    (call.cmd = "round_trip" /\ reply.kind = "loaded")
        => reply.body[2] = reply.body[1]

\* C16: startup succeeds for every content of the task file, and for a file
\* that is absent, unreadable or not JSON the store starts with an empty
\* 'tasks' list.
C16_StartupNeverFails ==
    call.cmd = "__init__"
        => /\ reply.kind = "started"
           /\ file.kind # "json" => tasks = EmptyDoc

\* C15: config_show for a guild that has no entry returns an empty dict and
\* inserts it into self.config_data without writing the file, and leaves
\* every other entry alone; the next set command that saves writes the
\* whole map, empty entries included.
C15_LazyEntryNotPersisted ==
    [][ /\ (call'.cmd = "config_show" /\ call'.guild # NoGuild)
           => LET key == GuildKey(call'.guild) IN
              /\ config_file' = config_file
              /\ DOMAIN config_data' = DOMAIN config_data \cup {key}
              /\ \A g \in DOMAIN config_data : config_data'[g] = config_data[g]
              /\ key \notin DOMAIN config_data
                    => /\ config_data'[key] = EmptyMap
                       /\ reply' = Reply("config", <<EmptyMap>>)
        /\ (call'.cmd \in {"config_set_welcome_channel",
                           "config_set_logging_channel"} /\ io' = "ok")
           => /\ load_config_data(config_file') = config_data'
              /\ \A g \in DOMAIN config_data :
                    g \in DOMAIN load_config_data(config_file') ]_vars

\* config_show has just made the empty entry of guild 2 while the file,
\* written by an earlier set command of guild 1, does not hold it.
C15_Witness ==
    /\ call.cmd = "config_show"
    /\ call.guild = 2
    /\ config_data[GuildKey(2)] = EmptyMap
    /\ config_file.kind = "json"
    /\ DOMAIN load_config_data(config_file) = {GuildKey(1)}

\* C17: id, creator_id and created_at of a record never change: every step
\* leaves the three as they were at every list position.
C17_IdentityImmutable ==
    [][ \A i \in 1..Len(tasks.tasks) :
           /\ i <= Len(tasks'.tasks)
           /\ tasks'.tasks[i].id = tasks.tasks[i].id
           /\ tasks'.tasks[i].creator_id = tasks.tasks[i].creator_id
           /\ tasks'.tasks[i].created_at = tasks.tasks[i].created_at ]_vars

\* A task that was completed, deleted and then edited with a new assignee
\* still has the id, creator and creation time it was created with.
C17_Witness ==
    /\ call.cmd = "task_edit"
    /\ reply.kind = "edited"
    /\ call.args.assignee = 7
    /\ \E i \in 1..Len(tasks.tasks) :
          /\ FirstMatch(tasks.tasks, call.task_id, i)
          /\ tasks.tasks[i].status = "deleted"
          /\ "completed_at" \in DOMAIN tasks.tasks[i]
          /\ tasks.tasks[i].assignee_id = 7
          /\ tasks.tasks[i].creator_id = 1
          /\ tasks.tasks[i].created_at = 1

\* C18: a rejected complete, delete or edit changes nothing: an id that is
\* not in the list is answered not-found, complete on a deleted task
\* already-deleted, complete on a done task already-done, delete on a
\* deleted task already-deleted, and in each case the in-memory list and the
\* file stay as they were.
C18_RejectedChangesNothing ==
    [][ LET list == tasks.tasks
            Rejected(kind) ==
                reply'.kind = kind /\ tasks' = tasks /\ file' = file
        IN  /\ (/\ call'.cmd \in {"task_done", "task_delete", "task_edit"}
                /\ \A i \in 1..Len(list) : list[i].id # call'.task_id)
                  => Rejected("not_found")
            /\ \A i \in 1..Len(list) :
                  FirstMatch(list, call'.task_id, i)
                  => /\ (call'.cmd = "task_done" /\ list[i].status = "deleted")
                           => Rejected("already_deleted")
                     /\ (call'.cmd = "task_done" /\ list[i].status = "done")
                           => Rejected("already_done")
                     /\ (call'.cmd = "task_delete"
                           /\ list[i].status = "deleted")
                           => Rejected("already_deleted") ]_vars

\* task_delete has refused a task that is already deleted; the file holds
\* the list as it is in memory.
C18_Witness ==
    /\ call.cmd = "task_delete"
    /\ reply.kind = "already_deleted"
    /\ io = "none"
    /\ file = FileJson(json_dump(tasks))
    /\ \E i \in 1..Len(tasks.tasks) :
          /\ FirstMatch(tasks.tasks, call.task_id, i)
          /\ tasks.tasks[i].status = "deleted"
          /\ "deleted_at" \in DOMAIN tasks.tasks[i]

\* C19: task_edit is not refused for the status of the task, and an edit
\* that is confirmed sets exactly the supplied fields of the found task:
\* omitted fields, status, completed_at, deleted_at, the other keys and
\* every other task stay as they were.
C19_EditFrame ==
    [][ \A i \in 1..Len(tasks.tasks) :
           (call'.cmd = "task_edit" /\ FirstMatch(tasks.tasks, call'.task_id, i))
           => LET t == tasks.tasks[i]
                  u == tasks'.tasks[i]
                  a == call'.args
              IN  /\ reply'.kind \in {"edited", "invalid_date", "save_error"}
                  /\ reply'.kind = "edited"
                     => /\ u.title = IF a.title # None THEN a.title
                                     ELSE t.title
                        /\ u.description = IF a.description # None
                                           THEN a.description
                                           ELSE t.description
                        /\ u.assignee_id = IF a.assignee # NoneId
                                           THEN a.assignee
                                           ELSE t.assignee_id
                        /\ u.due_date = IF a.due_date = None THEN t.due_date
                                        ELSE IF a.due_date = "none" THEN None
                                        ELSE a.due_date
                        /\ DOMAIN u = DOMAIN t
                        /\ \A k \in DOMAIN t \ {"title", "description",
                                                "assignee_id", "due_date"} :
                              u[k] = t[k]
                        /\ Len(tasks'.tasks) = Len(tasks.tasks)
                        /\ \A j \in 1..Len(tasks.tasks) :
                              j # i => tasks'.tasks[j] = tasks.tasks[j] ]_vars

\* A deleted task has been edited: the supplied description is stored, the
\* omitted title is the one it was created with, and it is still deleted.
C19_Witness ==
    /\ call.cmd = "task_edit"
    /\ reply.kind = "edited"
    /\ call.args.title = None
    /\ call.args.description = "details"
    /\ \E i \in 1..Len(tasks.tasks) :
          /\ FirstMatch(tasks.tasks, call.task_id, i)
          /\ tasks.tasks[i].status = "deleted"
          /\ "deleted_at" \in DOMAIN tasks.tasks[i]
          /\ tasks.tasks[i].title = "Write report"
          /\ tasks.tasks[i].description = "details"

\* C20: a create that is confirmed appends exactly one record at the end of
\* the list, active, with the supplied title, the description or "" and
\* neither completed_at nor deleted_at, leaves the records before it
\* unchanged, and the file then holds the new list.
C20_CreateAppendsAndPersists ==
    [][ (call'.cmd = "task_add" /\ reply'.kind = "created")
        => LET n == Len(tasks.tasks)
               t == tasks'.tasks[n + 1]
           IN  /\ Len(tasks'.tasks) = n + 1
               /\ SubSeq(tasks'.tasks, 1, n) = tasks.tasks
               /\ t.status = "active"
               /\ t.title = call'.args.title
               /\ t.description = IF call'.args.description = None THEN ""
                                  ELSE call'.args.description
               /\ "completed_at" \notin DOMAIN t
               /\ "deleted_at" \notin DOMAIN t
               /\ file' = FileJson(json_dump(tasks')) ]_vars

\* The change a mutating command makes is in self.tasks after the step.
ChangeKept ==
    LET list == tasks.tasks
        a    == call'.args
    IN  /\ call'.cmd = "task_add"
           => /\ Len(tasks'.tasks) = Len(list) + 1
              /\ tasks'.tasks[Len(list) + 1].title = a.title
              /\ tasks'.tasks[Len(list) + 1].created_at = now
        /\ \A i \in 1..Len(list) :
              FirstMatch(list, call'.task_id, i)
              => /\ call'.cmd = "task_done"
                    => /\ tasks'.tasks[i].status = "done"
                       /\ tasks'.tasks[i].completed_at = now
                 /\ call'.cmd = "task_delete"
                    => /\ tasks'.tasks[i].status = "deleted"
                       /\ tasks'.tasks[i].deleted_at = now
                 /\ call'.cmd = "task_edit"
                    => Editable(tasks'.tasks[i]) =
                         << IF a.title # None THEN a.title
                            ELSE list[i].title,
                            IF a.description # None THEN a.description
                            ELSE list[i].description,
                            IF a.assignee # NoneId THEN a.assignee
                            ELSE list[i].assignee_id,
                            IF a.due_date = None THEN list[i].due_date
                            ELSE IF a.due_date = "none" THEN None
                            ELSE a.due_date >>

\* C21 as stated: when the write of a mutating command fails, the change
\* stays in memory and the file still holds its old content.
C21_NoRollbackOldFile ==
    [][ io' \in SaveOutcomes \ {"ok"}
        => ChangeKept /\ file' = file ]_vars

\* C21: when the write of a mutating command fails, the change stays in
\* memory; the file keeps its old content when makedirs or open() failed
\* and is left as text that is not JSON when the dump failed after open()
\* truncated it.
C21_NoRollbackFileNotUpdated ==
    [][ io' \in SaveOutcomes \ {"ok"}
        => /\ ChangeKept
           /\ io' \in {"mkdir_fail", "open_fail"} => file' = file
           /\ io' = "dump_fail" => file' = FileInvalid ]_vars

\* task_done's save failed at open(): the task is done in memory while the
\* file still reads back the active task.
C21_Witness ==
    /\ call.cmd = "task_done"
    /\ io = "open_fail"
    /\ file.kind = "json"
    /\ \E i \in 1..Len(tasks.tasks) :
          /\ FirstMatch(tasks.tasks, call.task_id, i)
          /\ tasks.tasks[i].status = "done"
          /\ tasks.tasks[i].completed_at = now - 1
          /\ load_json(file).val.tasks[i].status = "active"

\* The key a set command assigns.
SetField(cmd) ==
    IF cmd = "config_set_welcome_channel" THEN "welcome_channel_id"
    ELSE "logging_channel_id"

\* A set command assigns exactly its key of the guild's dict: the other key
\* of that dict and the dicts of the other guilds are as before.
OnlyFieldSet ==
    LET key   == GuildKey(call'.guild)
        field == SetField(call'.cmd)
        old   == IF key \in DOMAIN config_data THEN config_data[key]
                 ELSE EmptyMap
    IN  /\ DOMAIN config_data' = DOMAIN config_data \cup {key}
        /\ DOMAIN config_data'[key] = DOMAIN old \cup {field}
        /\ config_data'[key][field] = call'.channel
        /\ \A k \in DOMAIN old \ {field} : config_data'[key][k] = old[k]
        /\ \A g \in DOMAIN config_data \ {key} :
              config_data'[g] = config_data[g]

C23_FirstMatchOnly ==
    [][ \A i \in 1..Len(tasks.tasks) :
           FirstMatch(tasks.tasks, call'.task_id, i)
           => LET t == tasks.tasks[i] IN
              /\ call'.cmd \in {"task_done", "task_delete", "task_edit",
                                "task_detail"}
                    => /\ reply'.kind # "not_found"
                       /\ Len(tasks'.tasks) = Len(tasks.tasks)
                       /\ \A j \in 1..Len(tasks.tasks) :
                             j # i => tasks'.tasks[j] = tasks.tasks[j]
              /\ call'.cmd = "task_detail" => reply' = Reply("detail", <<t>>)
              /\ call'.cmd = "task_done"
                    => IF t.status = "active"
                       THEN /\ reply'.kind \in {"done", "save_error"}
                            /\ tasks'.tasks[i].status = "done"
                       ELSE /\ reply'.kind = "already_" \o t.status
                            /\ tasks' = tasks
              /\ call'.cmd = "task_delete"
                    => IF t.status # "deleted"
                       THEN /\ reply'.kind \in {"deleted", "save_error"}
                            /\ tasks'.tasks[i].status = "deleted"
                       ELSE /\ reply'.kind = "already_deleted"
                            /\ tasks' = tasks ]_vars

\* Two records share an id; task_done has completed the first one and the
\* second one is still active.
C23_Witness ==
    /\ call.cmd = "task_done"
    /\ reply.kind = "done"
    /\ Len(tasks.tasks) = 2
    /\ tasks.tasks[1].id = call.task_id
    /\ tasks.tasks[2].id = call.task_id
    /\ tasks.tasks[1].status = "done"
    /\ tasks.tasks[2].status = "active"
    /\ "completed_at" \notin DOMAIN tasks.tasks[2]

====
